---------------------------- MODULE Spec2Model ----------------------------
(***************************************************************************)
(* A model of db_stats.py: the interactive database choice, the run of    *)
(* main (connect, node statistics, relationship statistics, cleanup) and   *)
(* the join of node counts with the index catalog.                         *)
(*                                                                         *)
(* The Neo4j driver is the environment: every call into it (creating the   *)
(* driver, opening a session, session.run, reading a row, result.data())   *)
(* either succeeds or raises, and the rows it delivers are drawn from      *)
(* small sets.                                                             *)
(***************************************************************************)
EXTENDS Naturals, Sequences, FiniteSets, TLC

VARIABLES
    pc,          \* position of the run in main / the called method
    choice,      \* get_db_choice: the last line read by input(), a sequence of characters
    prompts,     \* get_db_choice: number of lines read so far
    creds,       \* main: (uri, username, password) returned by get_db_choice
    stats,       \* main: the Neo4jStats object: "None", "open" or "closed" (its driver)
    session,     \* the session held by a with-block: "none", "node" or "rel"
    issued,      \* the queries submitted with session.run, in order
    qstatus,     \* per query: "idle", "active", "done" or "failed"
    nodeRecs,    \* get_node_stats: the rows the node-count result delivers
    nodeCur,     \* get_node_stats: rows of nodeRecs consumed by the for loop
    node_stats,  \* get_node_stats: node_stats
    dbIndexes,   \* the index catalog the database holds when SHOW INDEXES is submitted
    index_info,  \* get_node_stats: index_info
    final_stats, \* get_node_stats: final_stats (the returned list, until it is printed)
    relRecs,     \* get_relationship_stats: the rows the relationship result delivers
    relCur,      \* get_relationship_stats: rows of relRecs consumed by the for loop
    rel_stats,   \* get_relationship_stats: rel_stats (the returned list, until printed)
    printed,     \* the tables main has printed
    warnings,    \* the "Warning: ..." lines printed by the per-query handlers
    raised       \* the exception that reached main's except clause, "none" if none

vars == <<pc, choice, prompts, creds, stats, session, issued, qstatus, nodeRecs,
          nodeCur, node_stats, dbIndexes, index_info, final_stats, relRecs, relCur,
          rel_stats, printed, warnings, raised>>

---------------------------------------------------------------------------
(* Bounds of the model.                                                    *)

MaxPrompts  == 3   \* invalid lines the operator types before a valid one
MaxNodeRecs == 3   \* rows delivered by the node-count query
MaxIndexes  == 2   \* descriptors in the index catalog
MaxRelRecs  == 4   \* rows delivered by the relationship query

---------------------------------------------------------------------------
(* Python values.                                                          *)

\* None in a string-valued field (a label, a relationship type).
None == "<None>"

\* An optional list (labelsOrTypes): None, or a list.
NoneList == [isNone |-> TRUE, val |-> <<>>]
SomeList(l) == [isNone |-> FALSE, val |-> l]

\* x in l, for a list l.
Contains(x, l) == \E i \in DOMAIN l : l[i] = x

\* d.get(key): None when the key is absent (string-valued fields).
RecordGet(rec, key) == IF key \in DOMAIN rec THEN rec[key] ELSE None

\* bool(record): a record with no fields is falsy.
RecordTruthy(rec) == DOMAIN rec # {}

\* sep.join(l)
RECURSIVE StrJoin(_, _)
StrJoin(sep, l) ==
    IF l = <<>> THEN ""
    ELSE IF Len(l) = 1 THEN l[1]
    ELSE l[1] \o sep \o StrJoin(sep, Tail(l))

---------------------------------------------------------------------------
(* get_db_choice                                                           *)

Whitespace == {" ", "\t"}

\* The lines the operator may type, as sequences of characters.
Inputs == { <<"1">>, <<"2">>, <<" ", "1">>, <<"2", " ">>, <<"\t", "1", " ">>,
            <<>>, <<" ">>, <<"3">>, <<"1", "2">>, <<"1", " ", "1">> }

\* The state of choice before input() has returned once.
NoInput == <<"<no input>">>

RECURSIVE LStrip(_)
LStrip(s) == IF s # <<>> /\ Head(s) \in Whitespace THEN LStrip(Tail(s)) ELSE s

RECURSIVE RStrip(_)
RStrip(s) ==
    IF s # <<>> /\ s[Len(s)] \in Whitespace THEN RStrip(SubSeq(s, 1, Len(s) - 1)) ELSE s

NoStrip(s) == s

\* str.strip()
Strip(s) == RStrip(LStrip(s))

\* os.getenv(name): the value of the environment variable.
GetEnv(name) == <<"env", name>>

NoCreds == <<>>
LocalCreds ==
    <<GetEnv("LOCAL_NEO4J_URI"), GetEnv("LOCAL_NEO4J_USERNAME"), GetEnv("LOCAL_NEO4J_PASSWORD")>>
RemoteCreds ==
    <<GetEnv("NEO4J_URI"), GetEnv("NEO4J_USERNAME"), GetEnv("NEO4J_PASSWORD")>>

---------------------------------------------------------------------------
(* The database: what the three queries can deliver.                       *)

Queries == {"nodes", "indexes", "rels"}

\* The order in which the program text submits the queries.
QueryOrder == <<"nodes", "indexes", "rels">>

\* Rows of the node-count query. UNWIND labels(n) yields no null label; the
\* row with a null label stands for what the loop's guard is written for.
NodeRecords ==
    { [label |-> "Person", count |-> 10],
      [label |-> "Company", count |-> 3],
      [label |-> "Person", count |-> 0],
      [label |-> None, count |-> 7] }

\* The query aggregates by label: no label is delivered twice.
DistinctLabels(s) ==
    \A i, j \in DOMAIN s : (i # j /\ s[i].label = s[j].label) => s[i].label = None

NodeStreams ==
    { s \in UNION { [1..n -> NodeRecords] : n \in 0..MaxNodeRecs } : DistinctLabels(s) }

\* Rows of SHOW INDEXES. A field the driver does not deliver is absent.
IndexDescriptors ==
    { [name |-> "idx1", labelsOrTypes |-> SomeList(<<"Person">>),
       properties |-> <<"email">>],
      [name |-> "idx2", type |-> "RANGE",
       labelsOrTypes |-> SomeList(<<"Company", "Person">>),
       properties |-> <<"name", "email">>],
      [name |-> "token_lookup", type |-> "LOOKUP", labelsOrTypes |-> NoneList],
      [type |-> "TEXT", labelsOrTypes |-> SomeList(<<"KNOWS", "Company">>)],
      [name |-> "idx5", type |-> "RANGE", properties |-> <<"since">>] }

Catalogs == UNION { [1..n -> IndexDescriptors] : n \in 0..MaxIndexes }

\* Rows of the relationship query.
RelRecords ==
    { [relationshipType |-> "KNOWS", startLabel |-> "Person", endLabel |-> "Person",
       count |-> 5],
      [relationshipType |-> "WORKS_AT", startLabel |-> "Person", endLabel |-> "Company",
       count |-> 2],
      [relationshipType |-> None, startLabel |-> "Person", endLabel |-> "(no label)",
       count |-> 2],
      [relationshipType |-> "OWNS", startLabel |-> "(no label)", endLabel |-> "Company",
       count |-> 1] }

\* ORDER BY count DESC
OrderedByCountDesc(s) == \A i \in 1..(Len(s) - 1) : s[i].count >= s[i + 1].count

\* One row per (type, start, end) group.
DistinctRows(s) == \A i, j \in DOMAIN s : i # j => s[i] # s[j]

RelStreams ==
    { s \in UNION { [1..n -> RelRecords] : n \in 0..MaxRelRecs } :
        OrderedByCountDesc(s) /\ DistinctRows(s) }

---------------------------------------------------------------------------
(* get_node_stats: the pure parts.                                         *)

\* The guard of the node loop.
KeepAnyNodeRecord(record) == RecordTruthy(record)

KeepNodeRecord(record) == RecordTruthy(record) /\ RecordGet(record, "label") # None

\* node_stats.append({...}) under the guard.
NodeAppend(ns, record) ==
    IF KeepNodeRecord(record)
    THEN Append(ns, [Label |-> record["label"], Count |-> record["count"]])
    ELSE ns

\* result.data() or []
DataOrEmpty(data) == IF data = <<>> THEN <<>> ELSE data

\* index_info in the except clause of the index query.
IndexInfoKept(catalog) == catalog

IndexInfoOnError(catalog) == <<>>

\* idx.get("labelsOrTypes") or []
LabelsOrTypes(idx) ==
    IF "labelsOrTypes" \notin DOMAIN idx THEN <<>>
    ELSE IF idx["labelsOrTypes"].isNone THEN <<>>
    ELSE idx["labelsOrTypes"].val

\* Only the first matching descriptor.
FirstLabelIndex(label, info) ==
    LET all == SelectSeq(info, LAMBDA idx : Contains(label, LabelsOrTypes(idx)))
    IN  IF all = <<>> THEN <<>> ELSE <<Head(all)>>

\* label_indexes = [idx for idx in index_info if label in (...)]
LabelIndexes(label, info) ==
    SelectSeq(info, LAMBDA idx : Contains(label, LabelsOrTypes(idx)))

EmptyIndexType == ""

\* The default of idx.get("type", ...)
DefaultIndexType == "N/A"

\* The row of a label and one of its indexes.
IndexRow(node, idx) ==
    [NodeLabel |-> node.Label,
     Count |-> node.Count,
     IndexName |-> IF "name" \in DOMAIN idx THEN idx["name"] ELSE "N/A",
     IndexType |-> IF "type" \in DOMAIN idx THEN idx["type"] ELSE DefaultIndexType,
     IndexedProperty |->
        StrJoin(", ", IF "properties" \in DOMAIN idx THEN idx["properties"] ELSE <<>>)]

\* The row of a label with no index.
NoIndexRow(node) ==
    [NodeLabel |-> node.Label,
     Count |-> node.Count,
     IndexName |-> "No Index",
     IndexType |-> "N/A",
     IndexedProperty |-> "N/A"]

\* One pass of the loop over node_stats.
RowsFor(node, info) ==
    LET label_indexes == LabelIndexes(node.Label, info)
    IN  IF Len(label_indexes) > 0
        THEN [k \in 1..Len(label_indexes) |-> IndexRow(node, label_indexes[k])]
        ELSE <<NoIndexRow(node)>>

\* final_stats after the loop over node_stats.
RECURSIVE CombineStats(_, _)
CombineStats(ns, info) ==
    IF ns = <<>> THEN <<>>
    ELSE RowsFor(Head(ns), info) \o CombineStats(Tail(ns), info)

---------------------------------------------------------------------------
(* get_relationship_stats: the pure parts.                                 *)

KeepRelRecord(record) ==
    RecordTruthy(record) /\ RecordGet(record, "relationshipType") # None

RelRow(record) ==
    [Relationship |-> record["relationshipType"],
     StartNode |-> record["startLabel"],
     EndNode |-> record["endLabel"],
     Count |-> record["count"]]

RelPrepend(rs, record) ==
    IF KeepRelRecord(record) THEN <<RelRow(record)>> \o rs ELSE rs

\* rel_stats.append({...}) under the guard.
RelAppend(rs, record) ==
    IF KeepRelRecord(record) THEN Append(rs, RelRow(record)) ELSE rs

---------------------------------------------------------------------------
(* Resources.                                                              *)

\* The with-block's exit: the session is closed.
WithExit(s) == "none"

NoClose(st) == st

\* finally: if stats is not None: stats.close()
FinallyClose(st) == IF st # "None" THEN "closed" ELSE st

---------------------------------------------------------------------------
(* The run of main.                                                        *)

Init ==
    /\ pc = "prompt"
    /\ choice = NoInput
    /\ prompts = 0
    /\ creds = NoCreds
    /\ stats = "None"
    /\ session = "none"
    /\ issued = <<>>
    /\ qstatus = [q \in Queries |-> "idle"]
    /\ nodeRecs = <<>>
    /\ nodeCur = 0
    /\ node_stats = <<>>
    /\ dbIndexes = <<>>
    /\ index_info = <<>>
    /\ final_stats = <<>>
    /\ relRecs = <<>>
    /\ relCur = 0
    /\ rel_stats = <<>>
    /\ printed = {}
    /\ warnings = {}
    /\ raised = "none"

dbVars == <<issued, qstatus, nodeRecs, nodeCur, node_stats, dbIndexes, index_info,
            final_stats, relRecs, relCur, rel_stats>>
nodeLocals == <<nodeRecs, nodeCur, node_stats, dbIndexes, index_info, final_stats>>
relLocals == <<relRecs, relCur, rel_stats>>
outVars == <<printed, warnings, raised>>

\* get_db_choice: input() returns a line that strips to "1".
ChooseLocal ==
    /\ pc = "prompt"
    /\ \E line \in Inputs :
        /\ Strip(line) = <<"1">>
        /\ choice' = line
    /\ prompts' = prompts + 1
    /\ creds' = LocalCreds
    /\ pc' = "connect"
    /\ UNCHANGED <<stats, session, dbVars, outVars>>

\* get_db_choice: input() returns a line that strips to "2".
ChooseRemote ==
    /\ pc = "prompt"
    /\ \E line \in Inputs :
        /\ Strip(line) = <<"2">>
        /\ choice' = line
    /\ prompts' = prompts + 1
    /\ creds' = RemoteCreds
    /\ pc' = "connect"
    /\ UNCHANGED <<stats, session, dbVars, outVars>>

\* get_db_choice: any other line; the loop prompts again.
InvalidChoice ==
    /\ pc = "prompt"
    /\ prompts < MaxPrompts
    /\ \E line \in Inputs :
        /\ Strip(line) # <<"1">>
        /\ Strip(line) # <<"2">>
        /\ choice' = line
    /\ prompts' = prompts + 1
    /\ pc' = "prompt"
    /\ UNCHANGED <<creds, stats, session, dbVars, outVars>>

\* stats = Neo4jStats(uri, username, password). get_db_choice has returned and
\* its locals (the line read, the number of prompts) are gone.
Connect ==
    /\ pc = "connect"
    /\ stats' = "open"
    /\ choice' = NoInput
    /\ prompts' = 0
    /\ pc' = "node_open"
    /\ UNCHANGED <<creds, session, dbVars, outVars>>

\* GraphDatabase.driver raises: stats stays None.
ConnectError ==
    /\ pc = "connect"
    /\ raised' = "connect"
    /\ choice' = NoInput
    /\ prompts' = 0
    /\ pc' = "except"
    /\ UNCHANGED <<creds, stats, session, dbVars, printed, warnings>>

\* get_node_stats: with self.driver.session() as session
NodeOpenSession ==
    /\ pc = "node_open"
    /\ session' = "node"
    /\ pc' = "node_run"
    /\ UNCHANGED <<choice, prompts, creds, stats, dbVars, outVars>>

\* self.driver.session() raises, in either method: no session was acquired.
OpenSessionError ==
    /\ pc \in {"node_open", "rel_open"}
    /\ raised' = "session"
    /\ pc' = "except"
    /\ UNCHANGED <<choice, prompts, creds, stats, session, dbVars, printed, warnings>>

\* get_node_stats: session.run of the node-count query returns a result.
NodeRun ==
    /\ pc = "node_run"
    /\ issued' = Append(issued, "nodes")
    /\ qstatus' = [qstatus EXCEPT !["nodes"] = "active"]
    /\ \E s \in NodeStreams : nodeRecs' = s
    /\ nodeCur' = 0
    /\ node_stats' = <<>>
    /\ pc' = "node_read"
    /\ UNCHANGED <<choice, prompts, creds, stats, session, dbIndexes, index_info,
                   final_stats, relLocals, outVars>>

\* get_node_stats: session.run of the node-count query raises. The call is outside
\* every try: the with-block closes the session and the exception reaches main.
NodeRunError ==
    /\ pc = "node_run"
    /\ issued' = Append(issued, "nodes")
    /\ qstatus' = [qstatus EXCEPT !["nodes"] = "failed"]
    /\ session' = WithExit(session)
    /\ raised' = "run_nodes"
    /\ pc' = "except"
    /\ UNCHANGED <<choice, prompts, creds, stats, nodeLocals, relLocals, printed, warnings>>

\* get_node_stats: one pass of "for record in result".
NodeReadNext ==
    /\ pc = "node_read"
    /\ nodeCur < Len(nodeRecs)
    /\ node_stats' = NodeAppend(node_stats, nodeRecs[nodeCur + 1])
    /\ nodeCur' = nodeCur + 1
    /\ UNCHANGED <<pc, choice, prompts, creds, stats, session, issued, qstatus, nodeRecs,
                   dbIndexes, index_info, final_stats, relLocals, outVars>>

\* get_node_stats: the result is exhausted.
NodeReadEnd ==
    /\ pc = "node_read"
    /\ nodeCur = Len(nodeRecs)
    /\ qstatus' = [qstatus EXCEPT !["nodes"] = "done"]
    /\ pc' = "idx_run"
    /\ UNCHANGED <<choice, prompts, creds, stats, session, issued, nodeLocals, relLocals,
                   outVars>>

\* The same handler, submitting the node-count query again.
NodeReadErrorRetry ==
    /\ pc = "node_read"
    /\ qstatus' = [qstatus EXCEPT !["nodes"] = "failed"]
    /\ warnings' = warnings \cup {"nodes"}
    /\ pc' = "node_run"
    /\ UNCHANGED <<choice, prompts, creds, stats, session, issued, nodeLocals, relLocals,
                   printed, raised>>

\* get_node_stats: fetching the next row raises; the handler prints a warning and
\* the method goes on with the rows appended so far.
NodeReadError ==
    /\ pc = "node_read"
    /\ qstatus' = [qstatus EXCEPT !["nodes"] = "failed"]
    /\ warnings' = warnings \cup {"nodes"}
    /\ pc' = "idx_run"
    /\ UNCHANGED <<choice, prompts, creds, stats, session, issued, nodeLocals, relLocals,
                   printed, raised>>

\* get_node_stats: session.run("SHOW INDEXES") returns a result.
IndexRun ==
    /\ pc = "idx_run"
    /\ issued' = Append(issued, "indexes")
    /\ qstatus' = [qstatus EXCEPT !["indexes"] = "active"]
    /\ \E c \in Catalogs : dbIndexes' = c
    /\ pc' = "idx_data"
    /\ UNCHANGED <<choice, prompts, creds, stats, session, nodeRecs, nodeCur, node_stats,
                   index_info, final_stats, relLocals, outVars>>

\* get_node_stats: session.run("SHOW INDEXES") raises, inside the try.
IndexRunError ==
    /\ pc = "idx_run"
    /\ issued' = Append(issued, "indexes")
    /\ qstatus' = [qstatus EXCEPT !["indexes"] = "failed"]
    /\ \E c \in Catalogs :
        /\ dbIndexes' = c
        /\ index_info' = IndexInfoOnError(c)
    /\ warnings' = warnings \cup {"indexes"}
    /\ pc' = "join"
    /\ UNCHANGED <<choice, prompts, creds, stats, session, nodeRecs, nodeCur, node_stats,
                   final_stats, relLocals, printed, raised>>

\* get_node_stats: index_info = result.data() or []
IndexData ==
    /\ pc = "idx_data"
    /\ index_info' = DataOrEmpty(dbIndexes)
    /\ qstatus' = [qstatus EXCEPT !["indexes"] = "done"]
    /\ pc' = "join"
    /\ UNCHANGED <<choice, prompts, creds, stats, session, issued, nodeRecs, nodeCur,
                   node_stats, dbIndexes, final_stats, relLocals, outVars>>

\* get_node_stats: result.data() raises, inside the try.
IndexDataError ==
    /\ pc = "idx_data"
    /\ index_info' = IndexInfoOnError(dbIndexes)
    /\ qstatus' = [qstatus EXCEPT !["indexes"] = "failed"]
    /\ warnings' = warnings \cup {"indexes"}
    /\ pc' = "join"
    /\ UNCHANGED <<choice, prompts, creds, stats, session, issued, nodeRecs, nodeCur,
                   node_stats, dbIndexes, final_stats, relLocals, printed, raised>>

\* get_node_stats: the loop that combines node counts with index information.
Combine ==
    /\ pc = "join"
    /\ final_stats' = CombineStats(node_stats, index_info)
    /\ pc' = "node_return"
    /\ UNCHANGED <<choice, prompts, creds, stats, session, issued, qstatus, nodeRecs,
                   nodeCur, node_stats, dbIndexes, index_info, relLocals, outVars>>

\* get_node_stats: return final_stats or []; the with-block closes the session and
\* the method's other locals are gone.
NodeReturn ==
    /\ pc = "node_return"
    /\ session' = WithExit(session)
    /\ final_stats' = IF final_stats = <<>> THEN <<>> ELSE final_stats
    /\ nodeRecs' = <<>>
    /\ nodeCur' = 0
    /\ node_stats' = <<>>
    /\ dbIndexes' = <<>>
    /\ index_info' = <<>>
    /\ pc' = "print_nodes"
    /\ UNCHANGED <<choice, prompts, creds, stats, issued, qstatus, relLocals, outVars>>

\* main: the node table is printed; the list is not read again.
PrintNodes ==
    /\ pc = "print_nodes"
    /\ printed' = printed \cup {"nodes"}
    /\ final_stats' = <<>>
    /\ pc' = "rel_open"
    /\ UNCHANGED <<choice, prompts, creds, stats, session, issued, qstatus, nodeRecs,
                   nodeCur, node_stats, dbIndexes, index_info, relLocals, warnings, raised>>

\* main: print or tabulate raises, for either table.
PrintError ==
    /\ pc \in {"print_nodes", "print_rels"}
    /\ raised' = "print"
    /\ final_stats' = <<>>
    /\ rel_stats' = <<>>
    /\ pc' = "except"
    /\ UNCHANGED <<choice, prompts, creds, stats, session, issued, qstatus, nodeRecs,
                   nodeCur, node_stats, dbIndexes, index_info, relRecs, relCur, printed,
                   warnings>>

\* get_relationship_stats: with self.driver.session() as session
RelOpenSession ==
    /\ pc = "rel_open"
    /\ session' = "rel"
    /\ pc' = "rel_run"
    /\ UNCHANGED <<choice, prompts, creds, stats, dbVars, outVars>>

\* get_relationship_stats: session.run returns a result.
RelRun ==
    /\ pc = "rel_run"
    /\ issued' = Append(issued, "rels")
    /\ qstatus' = [qstatus EXCEPT !["rels"] = "active"]
    /\ \E s \in RelStreams : relRecs' = s
    /\ relCur' = 0
    /\ rel_stats' = <<>>
    /\ pc' = "rel_read"
    /\ UNCHANGED <<choice, prompts, creds, stats, session, nodeLocals, outVars>>

\* get_relationship_stats: session.run raises, outside every try.
RelRunError ==
    /\ pc = "rel_run"
    /\ issued' = Append(issued, "rels")
    /\ qstatus' = [qstatus EXCEPT !["rels"] = "failed"]
    /\ session' = WithExit(session)
    /\ raised' = "run_rels"
    /\ pc' = "except"
    /\ UNCHANGED <<choice, prompts, creds, stats, nodeLocals, relLocals, printed, warnings>>

\* get_relationship_stats: one pass of "for record in result".
RelReadNext ==
    /\ pc = "rel_read"
    /\ relCur < Len(relRecs)
    /\ rel_stats' = RelAppend(rel_stats, relRecs[relCur + 1])
    /\ relCur' = relCur + 1
    /\ UNCHANGED <<pc, choice, prompts, creds, stats, session, issued, qstatus, nodeLocals,
                   relRecs, outVars>>

\* get_relationship_stats: the result is exhausted.
RelReadEnd ==
    /\ pc = "rel_read"
    /\ relCur = Len(relRecs)
    /\ qstatus' = [qstatus EXCEPT !["rels"] = "done"]
    /\ pc' = "rel_return"
    /\ UNCHANGED <<choice, prompts, creds, stats, session, issued, nodeLocals, relLocals,
                   outVars>>

\* get_relationship_stats: fetching the next row raises; the handler prints a
\* warning and the method returns the rows appended so far.
RelReadError ==
    /\ pc = "rel_read"
    /\ qstatus' = [qstatus EXCEPT !["rels"] = "failed"]
    /\ warnings' = warnings \cup {"rels"}
    /\ pc' = "rel_return"
    /\ UNCHANGED <<choice, prompts, creds, stats, session, issued, nodeLocals, relLocals,
                   printed, raised>>

\* get_relationship_stats: return rel_stats or []; the with-block closes the session.
RelReturn ==
    /\ pc = "rel_return"
    /\ session' = WithExit(session)
    /\ rel_stats' = IF rel_stats = <<>> THEN <<>> ELSE rel_stats
    /\ relRecs' = <<>>
    /\ relCur' = 0
    /\ pc' = "print_rels"
    /\ UNCHANGED <<choice, prompts, creds, stats, issued, qstatus, nodeLocals, outVars>>

\* main: the relationship table is printed.
PrintRels ==
    /\ pc = "print_rels"
    /\ printed' = printed \cup {"rels"}
    /\ rel_stats' = <<>>
    /\ pc' = "finally"
    /\ UNCHANGED <<choice, prompts, creds, stats, session, issued, qstatus, nodeLocals,
                   relRecs, relCur, warnings, raised>>

\* main: except Exception as e: print(f"Error: ...")
Except ==
    /\ pc = "except"
    /\ pc' = "finally"
    /\ UNCHANGED <<choice, prompts, creds, stats, session, dbVars, outVars>>

\* main: finally: if stats is not None: stats.close()
Finally ==
    /\ pc = "finally"
    /\ stats' = FinallyClose(stats)
    /\ pc' = "done"
    /\ UNCHANGED <<choice, prompts, creds, session, dbVars, outVars>>

Next ==
    \/ ChooseLocal
    \/ ChooseRemote
    \/ InvalidChoice
    \/ Connect
    \/ ConnectError
    \/ NodeOpenSession
    \/ OpenSessionError
    \/ NodeRun
    \/ NodeRunError
    \/ NodeReadNext
    \/ NodeReadEnd
    \/ NodeReadError
    \/ IndexRun
    \/ IndexRunError
    \/ IndexData
    \/ IndexDataError
    \/ Combine
    \/ NodeReturn
    \/ PrintNodes
    \/ PrintError
    \/ RelOpenSession
    \/ RelRun
    \/ RelRunError
    \/ RelReadNext
    \/ RelReadEnd
    \/ RelReadError
    \/ RelReturn
    \/ PrintRels
    \/ Except
    \/ Finally

Spec == Init /\ [][Next]_vars

---------------------------------------------------------------------------
(* Properties.                                                             *)

NodeMethodPcs == {"node_run", "node_read", "idx_run", "idx_data", "join", "node_return"}
RelMethodPcs == {"rel_run", "rel_read", "rel_return"}
FailedQueries == {q \in Queries : qstatus[q] = "failed"}

\* C1: a failure of any one of the three queries, at session.run or while its rows
\* are read, never aborts the run: when main ends with exactly one failed query
\* (and no failure of the connection, of a session or of printing), all three
\* queries were submitted and both tables were printed.
C1_QueryFailureNeverAborts ==
    (/\ pc = "done"
     /\ raised \notin {"connect", "session", "print"}
     /\ Cardinality(FailedQueries) = 1)
        => (issued = QueryOrder /\ printed = {"nodes", "rels"})

\* C2: once the Neo4jStats object exists, main ends with its connection closed, on
\* every exit path; and a session is open only inside the method whose with-block
\* opened it, so none is left open when the method has exited.
C2_ResourcesReleased ==
    /\ (pc = "done" /\ stats # "None") => stats = "closed"
    /\ pc = "done" => session = "none"
    /\ session = "node" => pc \in NodeMethodPcs
    /\ session = "rel" => pc \in RelMethodPcs
    /\ stats = "closed" => pc = "done"

\* C2's case: get_relationship_stats raised, or printing raised, after the
\* connection was created, and main has ended.
C2_Witness ==
    /\ pc = "done"
    /\ stats = "closed"
    /\ raised \in {"run_rels", "print"}
    /\ issued # <<>>

\* What the claims say of a descriptor, stated without the code's helpers.
Matches(label, idx) ==
    /\ "labelsOrTypes" \in DOMAIN idx
    /\ ~idx["labelsOrTypes"].isNone
    /\ \E i \in DOMAIN idx["labelsOrTypes"].val : idx["labelsOrTypes"].val[i] = label

RECURSIVE CommaJoined(_)
CommaJoined(p) ==
    IF Len(p) = 0 THEN ""
    ELSE IF Len(p) = 1 THEN p[1]
    ELSE CommaJoined(SubSeq(p, 1, Len(p) - 1)) \o ", " \o p[Len(p)]

\* A row carries the name, type and joined properties of descriptor idx; a field
\* the descriptor lacks shows as "N/A" (name, type) or as the empty string.
CarriesIndex(row, idx) ==
    /\ row.IndexName = (IF "name" \in DOMAIN idx THEN idx["name"] ELSE "N/A")
    /\ row.IndexType = (IF "type" \in DOMAIN idx THEN idx["type"] ELSE "N/A")
    /\ row.IndexedProperty =
         (IF "properties" \in DOMAIN idx THEN CommaJoined(idx["properties"]) ELSE "")

IsFallback(row) ==
    row.IndexName = "No Index" /\ row.IndexType = "N/A" /\ row.IndexedProperty = "N/A"

RowsOf(label) == {k \in DOMAIN final_stats : final_stats[k].NodeLabel = label}
MatchesOf(label) == {m \in DOMAIN index_info : Matches(label, index_info[m])}

\* C3: when the join has run, each label L with count C and N matching descriptors
\* has exactly N rows if N >= 1, each with L and C and the fields of one distinct
\* matching descriptor, and exactly one row (L, C, "No Index", "N/A", "N/A") if
\* N = 0; there are no other rows.
C3_JoinFanOut ==
    pc = "node_return" =>
        /\ \A i \in DOMAIN node_stats :
            LET L == node_stats[i].Label
                K == RowsOf(L)
                M == MatchesOf(L)
            IN  /\ \A k \in K : final_stats[k].Count = node_stats[i].Count
                /\ IF M # {}
                   THEN /\ Cardinality(K) = Cardinality(M)
                        /\ \E f \in [K -> M] :
                            /\ \A k1, k2 \in K : f[k1] = f[k2] => k1 = k2
                            /\ \A k \in K : CarriesIndex(final_stats[k], index_info[f[k]])
                   ELSE /\ Cardinality(K) = 1
                        /\ \A k \in K : IsFallback(final_stats[k])
        /\ \A k \in DOMAIN final_stats :
            \E i \in DOMAIN node_stats : node_stats[i].Label = final_stats[k].NodeLabel

\* C3's case: the join has run on a label with two matching descriptors, a label
\* with none, and a count of zero.
C3_Witness ==
    /\ pc = "node_return"
    /\ \E i \in DOMAIN node_stats : Cardinality(MatchesOf(node_stats[i].Label)) = 2
    /\ \E i \in DOMAIN node_stats : MatchesOf(node_stats[i].Label) = {}
    /\ \E i \in DOMAIN node_stats : node_stats[i].Count = 0

\* C4: when SHOW INDEXES failed, get_node_stats still reaches its return (no
\* exception leaves it) with exactly one row per label of node_stats, each with
\* "No Index", "N/A", "N/A", whatever the catalog holds.
C4_IndexFailureAllNoIndex ==
    /\ (qstatus["indexes"] = "failed" /\ pc = "node_return") =>
        /\ Len(final_stats) = Len(node_stats)
        /\ \A i \in DOMAIN node_stats :
            /\ final_stats[i].NodeLabel = node_stats[i].Label
            /\ final_stats[i].Count = node_stats[i].Count
            /\ IsFallback(final_stats[i])
    /\ (qstatus["indexes"] = "failed" /\ pc \notin {"join", "node_return"}) =>
        \/ pc = "print_nodes"
        \/ "nodes" \in printed
        \/ raised = "print"

\* C4's case: SHOW INDEXES failed while the catalog holds an index on a label
\* that was counted, and the method is at its return with two labels.
C4_Witness ==
    /\ pc = "node_return"
    /\ qstatus["indexes"] = "failed"
    /\ Len(node_stats) = 2
    /\ \E i \in DOMAIN node_stats, m \in DOMAIN dbIndexes :
        Matches(node_stats[i].Label, dbIndexes[m])

\* C5: a failed query contributes the empty result: after a failure while reading
\* the node-count rows node_stats holds no label, and after a failure while reading
\* the relationship rows get_relationship_stats returns the empty list.
C5_FailedQueryYieldsEmpty ==
    /\ (qstatus["nodes"] = "failed" /\ pc \in {"idx_run", "idx_data", "join", "node_return"})
        => node_stats = <<>>
    /\ (qstatus["rels"] = "failed" /\ pc = "rel_return") => rel_stats = <<>>

\* C6: the list get_relationship_stats builds and returns is sorted by Count,
\* descending, for rows delivered in ORDER BY count DESC.
C6_RelStatsSortedDesc ==
    \A i \in 1..(Len(rel_stats) - 1) : rel_stats[i].Count >= rel_stats[i + 1].Count

\* C6's case: a row with a null type was skipped, reading stopped on an error
\* before the last row, and two rows are returned.
C6_Witness ==
    /\ pc = "rel_return"
    /\ qstatus["rels"] = "failed"
    /\ relCur < Len(relRecs)
    /\ \E i \in 1..relCur : relRecs[i].relationshipType = None
    /\ Len(rel_stats) = 2
    /\ rel_stats[1].Count > rel_stats[2].Count

IsPrefix(s, t) == Len(s) <= Len(t) /\ \A i \in DOMAIN s : s[i] = t[i]

\* C7: the queries are submitted in the order node count, index catalog,
\* relationship count, each at most once, at most one is in progress, and a query
\* is submitted only when the one before it has completed or failed.
C7_QueriesSequential ==
    /\ IsPrefix(issued, QueryOrder)
    /\ Cardinality({q \in Queries : qstatus[q] = "active"}) <= 1
    /\ \A i \in 2..Len(issued) : qstatus[issued[i - 1]] \in {"done", "failed"}
    /\ \A q \in Queries : qstatus[q] # "idle" <=> Contains(q, issued)

\* C7's case: a run in which the node-count rows failed while being read and all
\* three queries were submitted.
C7_Witness ==
    /\ pc = "done"
    /\ issued = QueryOrder
    /\ qstatus["nodes"] = "failed"
    /\ qstatus["rels"] = "failed"

\* The line holds the digit d and otherwise only whitespace.
IsChoice(line, d) == SelectSeq(line, LAMBDA c : c \notin Whitespace) = <<d>>

\* C8: get_db_choice is at its prompt again after every line that is neither "1"
\* nor "2" once stripped, returns only on such a line (the local triple for "1",
\* the remote one for "2"), and while it prompts no connection exists and no query
\* has been submitted.
C8_ChoiceValidated ==
    /\ pc = "prompt" =>
        /\ creds = NoCreds /\ stats = "None" /\ session = "none" /\ issued = <<>>
        /\ choice # NoInput => (~IsChoice(choice, "1") /\ ~IsChoice(choice, "2"))
    /\ (choice # NoInput /\ ~IsChoice(choice, "1") /\ ~IsChoice(choice, "2")) => pc = "prompt"
    /\ pc = "connect" =>
        \/ IsChoice(choice, "1") /\ creds = LocalCreds
        \/ IsChoice(choice, "2") /\ creds = RemoteCreds
    /\ pc # "prompt" => creds \in {LocalCreds, RemoteCreds}

\* C8's case: get_db_choice has returned the local triple on a line with
\* surrounding whitespace, after at least two invalid lines.
C8_Witness ==
    /\ pc = "connect"
    /\ prompts >= 3
    /\ Len(choice) > 1
    /\ creds = LocalCreds

ExampleNodeStats == <<[Label |-> "Person", Count |-> 10], [Label |-> "Company", Count |-> 3]>>
ExampleIndexInfo ==
    <<[name |-> "idx1", labelsOrTypes |-> SomeList(<<"Person">>), properties |-> <<"email">>]>>
ExampleRows(indexType) ==
    <<[NodeLabel |-> "Person", Count |-> 10, IndexName |-> "idx1",
       IndexType |-> indexType, IndexedProperty |-> "email"],
      [NodeLabel |-> "Company", Count |-> 3, IndexName |-> "No Index",
       IndexType |-> "N/A", IndexedProperty |-> "N/A"]>>
AtExample ==
    pc = "node_return" /\ node_stats = ExampleNodeStats /\ index_info = ExampleIndexInfo

\* C9 as stated: for [(Person, 10), (Company, 3)] and the one descriptor idx1 on
\* Person with properties [email] and no type, the rows are (Person, 10, idx1,
\* "", email) and (Company, 3, No Index, N/A, N/A).
C9_ExampleEmptyType == AtExample => final_stats = ExampleRows("")

\* C9 as amended: the same rows, with index type "N/A" in the Person row.
C9_ExampleDefaultType == AtExample => final_stats = ExampleRows("N/A")

\* C9's case: the join has run on the example's inputs.
C9_Witness == AtExample /\ Len(final_stats) = 2

Delivered == SelectSeq(SubSeq(nodeRecs, 1, nodeCur), LAMBDA r : r.label # None)
PosOf(label) == CHOOSE i \in DOMAIN Delivered : Delivered[i].label = label
Rank(S, x) == Cardinality({y \in S : y <= x})

\* C10: the returned rows keep the input order: every row's label is a non-null
\* label the node-count query delivered, every such label has a row, rows follow
\* the delivery order of their labels (so each label's rows are contiguous), and
\* the rows of one label follow the catalog order of its matching descriptors.
C10_OrderKept ==
    pc = "node_return" =>
        /\ \A k \in DOMAIN final_stats :
            /\ final_stats[k].NodeLabel # None
            /\ \E i \in DOMAIN Delivered : Delivered[i].label = final_stats[k].NodeLabel
        /\ \A i \in DOMAIN Delivered : RowsOf(Delivered[i].label) # {}
        /\ \A k1, k2 \in DOMAIN final_stats :
            k1 < k2 => PosOf(final_stats[k1].NodeLabel) <= PosOf(final_stats[k2].NodeLabel)
        /\ \A i \in DOMAIN Delivered :
            LET K == RowsOf(Delivered[i].label)
                M == MatchesOf(Delivered[i].label)
            IN  M # {} =>
                  \A k \in K : \E m \in M :
                      /\ Rank(K, k) = Rank(M, m)
                      /\ CarriesIndex(final_stats[k], index_info[m])

\* C10's case: a null-label row was delivered between two labels, the second of
\* which has two matching descriptors with different names.
C10_Witness ==
    /\ pc = "node_return"
    /\ nodeCur = 3
    /\ nodeRecs[1].label # None /\ nodeRecs[2].label = None /\ nodeRecs[3].label # None
    /\ Len(final_stats) = 3
    /\ final_stats[2].NodeLabel = final_stats[3].NodeLabel
    /\ final_stats[2].IndexName # final_stats[3].IndexName
    /\ ~IsFallback(final_stats[2])

=============================================================================
